---- MODULE Spec2Model ----
(***************************************************************************)
(* Model of the audio configuration manager (AudioConfigManager and the    *)
(* AudioProfile / AudioEQNode / AudioChannelControl value classes).        *)
(*                                                                         *)
(* Objects of class AudioProfile live in a heap and are named by           *)
(* references, so that copy(), indexOf() and the closures that capture an  *)
(* object are modelled with the identity the JavaScript has.  Every        *)
(* handler is an operator from the manager's state (a record) to the       *)
(* state it leaves behind; an action applies one handler.                  *)
(***************************************************************************)
EXTENDS Integers, Sequences, FiniteSets, TLC

VARIABLES
    heap,            \* reference -> AudioProfile object
    profiles,        \* this.profiles: sequence of references
    currentProfile,  \* this.currentProfile: reference, or NULL before the load
    dropdownVal,     \* id in this.ui.profileDropdown.dataset.val ('p' + id)
    saveTimeout,     \* this.saveTimeout: id of the timer set last, 0 before
    timers,          \* timers the host has pending: set of [id, due]
    lastSave,        \* history: when saveProfilesToStorage ran last, -1 before
    audioReady,      \* setupNodes has run: audioContext, pre/postAnalyser exist
    equalizerNodes,  \* this.equalizerNodes: the live BiquadFilterNode instances
    equalizerDbResponse, \* this.equalizerDbResponse, <<>> while undefined
    shouldRunRenderLoop, \* this.shouldRunRenderLoop
    renderLoopRunning,   \* this.renderLoopRunning
    frames,          \* callbacks of requestAnimationFrame that are pending
    displayed,       \* audioConfigContainer.style.display is not 'none'
    upscaler,        \* the MonoUpscaler module: its fields and its connections
    conns,           \* connections of the audio graph: set of <<from, to>>
    drag,            \* the node marker closure that is dragging, or NoDrag
    channelGains,    \* this.channelGains[k].gain.value, <<>> before setupNodes
    mixerBound,      \* currentProfile captured by the mixer closures, or NULL
    storage,         \* chrome.storage.local: audioProfiles, currentAudioProfile
    loaded,          \* the callback of loadProfilesFromStorage has run
    meters,          \* els.peak, els.peakTime and what is drawn, per strip
    now,             \* Date.now(), in ms since the construction
    calc,            \* the mapping applied last: function, argument, value
    last             \* the handler that ran last and how it ended

vars == <<heap, profiles, currentProfile, dropdownVal, saveTimeout, timers,
          lastSave, audioReady, equalizerNodes, equalizerDbResponse, conns, drag,
          shouldRunRenderLoop, renderLoopRunning, frames, displayed,
          upscaler,
          channelGains, mixerBound, storage, loaded, meters, now, calc, last>>

----------------------------------------------------------------------------
(* Bounds of the model *)

MaxProfiles == 2
MaxStages == 2
MaxWheel == 1
MaxNow == 2200
MaxStep == 300
MaxFrames == 2

(* Program constants *)

NumChannels == 7
MasterId == 6
NumRegular == 6

NULL == 0
Refs == 1 .. (MaxProfiles + 3)
NoDrag == [i |-> 0, stale |-> FALSE, type |-> ""]

----------------------------------------------------------------------------
(* Value classes *)

\* parseFloat of what is not a number (a missing field, a word)
NaN == -1000000

\* new AudioEQNode(type, frequency, gain, q)
AudioEQNode(type, frequency, gain, q) ==
    [type |-> type, frequency |-> frequency, gain |-> gain, q |-> q]

\* new AudioChannelControl(channelId, gain, muted, solo)
AudioChannelControl(channelId, gain, muted, solo) ==
    [id |-> channelId, gain |-> gain, muted |-> muted, solo |-> solo]

\* new AudioProfile(id): empty chain, no channels, label `Profile ${id}`
AudioProfile(id) ==
    [id |-> id, label |-> <<"Profile", id>>,
     equalizerNodes |-> <<>>, mixerChannels |-> <<>>]

\* AudioEQNode.fromObj / toObj
EQNodeFromObj(obj) == AudioEQNode(obj.type, obj.frequency, obj.gain, obj.q)
EQNodeToObj(node) ==
    [type |-> node.type, frequency |-> node.frequency,
     gain |-> node.gain, q |-> node.q]

\* AudioChannelControl.fromObj / toObj
ChannelFromObj(obj) == AudioChannelControl(obj.id, obj.gain, obj.muted, obj.solo)
ChannelToObj(ch) ==
    [id |-> ch.id, gain |-> ch.gain, muted |-> ch.muted, solo |-> ch.solo]

\* AudioProfile.toObj: a plain object with fresh arrays of plain objects
ProfileToObj(p) ==
    [id |-> p.id, label |-> p.label,
     equalizerNodes |-> [i \in 1..Len(p.equalizerNodes) |->
                            EQNodeToObj(p.equalizerNodes[i])],
     mixerChannels |-> [i \in 1..Len(p.mixerChannels) |->
                            ChannelToObj(p.mixerChannels[i])]]

\* AudioProfile.fromObj: the label of the object replaces the auto-label
ProfileFromObj(obj) ==
    [AudioProfile(obj.id) EXCEPT
        !.label = obj.label,
        !.equalizerNodes = [i \in 1..Len(obj.equalizerNodes) |->
                               EQNodeFromObj(obj.equalizerNodes[i])],
        !.mixerChannels = [i \in 1..Len(obj.mixerChannels) |->
                               ChannelFromObj(obj.mixerChannels[i])]]

----------------------------------------------------------------------------
(* Heap *)

\* the least reference that names no object
Alloc(h) == CHOOSE r \in Refs \ DOMAIN h : \A r2 \in Refs \ DOMAIN h : r <= r2

\* the objects the manager or a closure still references
Roots(s) ==
    {s.profiles[i] : i \in 1..Len(s.profiles)}
        \cup ({s.currentProfile, s.mixerBound} \ {NULL})

\* References are names only.  After a handler the unreferenced objects are
\* collected and the others renamed by the first place that refers to them:
\* their index in this.profiles, then currentProfile, then the mixer closures.
Rank(s, r) ==
    LET n == Len(s.profiles)
        hits == {i \in 1..n : s.profiles[i] = r}
    IN  IF r = NULL THEN NULL
        ELSE IF hits # {} THEN CHOOSE i \in hits : \A j \in hits : i <= j
        ELSE IF r = s.currentProfile THEN n + 1
        ELSE n + 2

\* The mixer closures hold the channel objects of the profile they captured and
\* read nothing else of it: once that profile is neither the current one nor
\* stored, its other fields are unreachable.
Reachable(s, r) ==
    IF r = s.mixerBound /\ r # s.currentProfile
          /\ \A i \in 1..Len(s.profiles) : s.profiles[i] # r
    THEN [id |-> 0, label |-> <<>>, equalizerNodes |-> <<>>,
          mixerChannels |-> s.heap[r].mixerChannels]
    ELSE s.heap[r]

Collect(s) ==
    LET old(k) == CHOOSE r \in Roots(s) : Rank(s, r) = k
    IN  [s EXCEPT
           !.heap = [k \in {Rank(s, r) : r \in Roots(s)} |-> Reachable(s, old(k))],
           !.profiles = [i \in 1..Len(s.profiles) |-> Rank(s, s.profiles[i])],
           !.currentProfile = Rank(s, s.currentProfile),
           !.mixerBound = Rank(s, s.mixerBound)]

----------------------------------------------------------------------------
(* Profile store *)

NoDefault == -1

\* this.profiles.find((profile) => profile.id === id): its index, 0 if none
FindById(s, id) ==
    LET hits == {i \in 1..Len(s.profiles) : s.heap[s.profiles[i]].id = id}
    IN  IF hits = {} THEN 0 ELSE CHOOSE i \in hits : \A j \in hits : i <= j

\* this.profiles.indexOf(profile): index by identity, 0 if none
IndexOf(s, r) ==
    LET hits == {i \in 1..Len(s.profiles) : s.profiles[i] = r}
    IN  IF hits = {} THEN 0 ELSE CHOOSE i \in hits : \A j \in hits : i <= j

\* seq.splice(i, 1)
RemoveAt(seq, i) == [j \in 1..(Len(seq) - 1) |-> IF j < i THEN seq[j] ELSE seq[j + 1]]

SaveDelay == 500

\* clearTimeout(id): the pending timer with that id, if any, is dropped
clearTimeout(pending, id) == {tm \in pending : tm.id # id}

\* setTimeout(f, delay) at time t: a new pending timer, named by an id that no
\* pending timer has
setTimeout(pending, t, delay) ==
    LET id == CHOOSE k \in 1..(Cardinality(pending) + 1) :
                  /\ \A tm \in pending : tm.id # k
                  /\ \A k2 \in 1..(k - 1) : \E tm \in pending : tm.id = k2
    IN  [pending |-> pending \cup {[id |-> id, due |-> t + delay]}, id |-> id]

\* variant: saveProfilesToStorage without clearTimeout
saveProfilesToStorageNoClear(s) ==
    LET set == setTimeout(s.timers, s.now, SaveDelay)
    IN  [s EXCEPT !.timers = set.pending, !.saveTimeout = set.id,
                  !.lastSave = s.now]

saveProfilesToStorage(s) ==
    LET set == setTimeout(clearTimeout(s.timers, s.saveTimeout), s.now, SaveDelay)
    IN  [s EXCEPT !.timers = set.pending, !.saveTimeout = set.id,
                  !.lastSave = s.now]

\* variant: the next id taken from the number of profiles
getNextProfileIDByCount(s) == Len(s.profiles) + 1

getNextProfileID(s) ==
    LET used == {s.heap[s.profiles[i]].id : i \in 1..Len(s.profiles)}
    IN  CHOOSE id \in 1..(Len(s.profiles) + 1) :
            id \notin used /\ \A k \in 1..(id - 1) : k \in used

\* the new dropdown shows defaultID, else the id of the current profile, and
\* falls back to the first stored profile when no profile has that id
updateProfileDropdown(s, defaultID) ==
    LET id0 == IF defaultID # NoDefault THEN defaultID
               ELSE IF s.currentProfile # NULL
                    THEN s.heap[s.currentProfile].id ELSE 0
        id  == IF FindById(s, id0) # 0 THEN id0
               ELSE IF Len(s.profiles) > 0 THEN s.heap[s.profiles[1]].id ELSE 0
    IN  [s EXCEPT !.dropdownVal = id]

\* a click on the option 'p' + id of the dropdown: dataset.val becomes that
\* option; the callback does nothing for a profile option
ClickOption(s, id) == [s EXCEPT !.dropdownVal = id]

getDropdownProfile(s) ==
    LET i == FindById(s, s.dropdownVal)
    IN  IF i = 0 THEN NULL ELSE s.profiles[i]

\* profile.copy(): AudioProfile.fromObj(this.toObj()) is a new object whose
\* arrays and elements are new as well
copyAliased(h, r) == [heap |-> h, ref |-> r]

copy(h, r) ==
    LET n == Alloc(h)
    IN  [heap |-> (n :> ProfileFromObj(ProfileToObj(h[r]))) @@ h, ref |-> n]

addProfile(s, obj) ==
    LET n  == Alloc(s.heap)
        s1 == [s EXCEPT !.heap = (n :> obj) @@ s.heap,
                        !.profiles = Append(s.profiles, n)]
    IN  saveProfilesToStorage(updateProfileDropdown(s1, NoDefault))

newProfile(s) ==
    LET newID == getNextProfileID(s)
    IN  ClickOption(addProfile(s, AudioProfile(newID)), newID)

setCurrentProfile(s, r) ==
    LET c == copy(s.heap, r)
    IN  saveProfilesToStorage([s EXCEPT !.heap = c.heap, !.currentProfile = c.ref])

deleteProfileKeepEmpty(s, r) ==
    LET index == IndexOf(s, r)
        s1 == IF index # 0
              THEN [s EXCEPT !.profiles = RemoveAt(s.profiles, index)] ELSE s
    IN  saveProfilesToStorage(updateProfileDropdown(s1, NoDefault))

deleteProfile(s, r) ==
    LET index == IndexOf(s, r)
        s1 == IF index # 0
              THEN [s EXCEPT !.profiles = RemoveAt(s.profiles, index)] ELSE s
        s2 == IF Len(s1.profiles) = 0
              THEN [newProfile(s1) EXCEPT !.note = "recreated"] ELSE s1
        s3 == updateProfileDropdown(s2, NoDefault)
        \* this.profiles[Math.max(0, index - 1)], indices from 0
        sel == s3.profiles[(IF index - 2 > 0 THEN index - 2 ELSE 0) + 1]
    IN  saveProfilesToStorage(ClickOption(s3, s3.heap[sel].id))

\* variant: the copy keeps the id and the label of the active profile
saveCurrentProfileAsActive(s) ==
    LET profile == getDropdownProfile(s)
    IN  IF profile = NULL
        THEN [updateProfileDropdown(s, NoDefault) EXCEPT !.note = "alert"]
        ELSE LET c     == copy(s.heap, s.currentProfile)
                 index == IndexOf(s, profile)
                 s1 == [s EXCEPT !.heap = c.heap,
                                 !.profiles = IF index # 0
                                              THEN [s.profiles EXCEPT ![index] = c.ref]
                                              ELSE s.profiles]
             IN  saveProfilesToStorage(updateProfileDropdown(s1, NoDefault))

saveCurrentProfile(s) ==
    LET profile == getDropdownProfile(s)
    IN  IF profile = NULL
        THEN [updateProfileDropdown(s, NoDefault) EXCEPT !.note = "alert"]
        ELSE LET c     == copy(s.heap, s.currentProfile)
                 newP  == [c.heap[c.ref] EXCEPT !.label = s.heap[profile].label,
                                                !.id = s.heap[profile].id]
                 index == IndexOf(s, profile)
                 s1 == [s EXCEPT !.heap = [c.heap EXCEPT ![c.ref] = newP],
                                 !.profiles = IF index # 0
                                              THEN [s.profiles EXCEPT ![index] = c.ref]
                                              ELSE s.profiles]
             IN  saveProfilesToStorage(updateProfileDropdown(s1, NoDefault))

\* an entry of obj.profiles that is an object; null is the other kind
IsObject(entry) == "label" \in DOMAIN entry

\* the body of obj.profiles.forEach in loadProfileFile, from entry k on;
\* AudioProfile.fromObj(null) throws a TypeError at obj.id
RECURSIVE loadEntries(_, _, _)
loadEntries(s, entries, k) ==
    IF k > Len(entries) THEN s
    ELSE IF ~IsObject(entries[k]) THEN [s EXCEPT !.threw = TRUE]
    ELSE LET p0   == ProfileFromObj(entries[k])
             p1   == [p0 EXCEPT !.id = getNextProfileID(s)]
             clash == \E i \in 1..Len(s.profiles) :
                          s.heap[s.profiles[i]].label = p1.label
             p2   == IF clash
                     THEN [p1 EXCEPT !.label = Append(p1.label, "loaded from file")]
                     ELSE p1
             n    == Alloc(s.heap)
         IN  loadEntries([s EXCEPT !.heap = (n :> p2) @@ s.heap,
                                   !.profiles = Append(s.profiles, n)],
                         entries, k + 1)

loadProfileFileUnchecked(s, obj) ==
    LET s1 == loadEntries(s, obj.profiles, 1)
    IN  IF s1.threw THEN s1
        ELSE saveProfilesToStorage(updateProfileDropdown(s1, NoDefault))

loadProfileFile(s, obj) ==
    IF obj.type # "audioProfile"
    THEN [s EXCEPT !.threw = TRUE]
    ELSE LET s1 == loadEntries(s, obj.profiles, 1)
         IN  IF s1.threw THEN s1
             ELSE saveProfilesToStorage(updateProfileDropdown(s1, NoDefault))

----------------------------------------------------------------------------
(* Equalizer: the live filter chain and the audio graph *)

\* nodes of the audio graph.  Live filter instances are named by their place
\* in this.equalizerNodes; every instance dropped from that array is Stale.
Pre == [kind |-> "pre", i |-> 0]
Post == [kind |-> "post", i |-> 0]
Stale == [kind |-> "stale", i |-> 0]
Eq(i) == [kind |-> "eq", i |-> i]

SampleRate == 44100
MinFreq == 20

Clamp(v, lo, hi) == IF v < lo THEN lo ELSE IF v > hi THEN hi ELSE v

\* integer square root, by bisection on [lo, hi]
RECURSIVE Root(_, _, _)
Root(v, lo, hi) ==
    IF lo >= hi THEN lo
    ELSE LET mid == (lo + hi + 1) \div 2
         IN  IF mid * mid <= v THEN Root(v, mid, hi) ELSE Root(v, lo, mid - 1)

\* variant: the axis starts at 1 Hz
ratioToFrequencyFromOne(percent) ==
    LET maxFreq == SampleRate \div 2
        mean(a, b) == Root(a * b, 0, maxFreq)
        half == mean(1, maxFreq)
        k == percent \div 25
        f == CASE k <= 0 -> 1
               [] k = 1 -> mean(1, half)
               [] k = 2 -> half
               [] k = 3 -> mean(half, maxFreq)
               [] OTHER -> maxFreq
    IN  Clamp(f, 0, maxFreq)

\* ratioToFrequency(percent / 100): 10^(ratio * log10(maxFreq / 20) + log10(20))
\* is 20^(1 - ratio) * maxFreq^ratio; computed for ratios that are multiples
\* of 1/4 by geometric means, rounded down to a whole number of Hz
ratioToFrequency(percent) ==
    LET maxFreq == SampleRate \div 2
        mean(a, b) == Root(a * b, 0, maxFreq)
        half == mean(MinFreq, maxFreq)
        k == percent \div 25
        f == CASE k <= 0 -> mean(MinFreq, MinFreq)
               [] k = 1 -> mean(MinFreq, half)
               [] k = 2 -> half
               [] k = 3 -> mean(half, maxFreq)
               [] OTHER -> mean(maxFreq, maxFreq)
    IN  Clamp(f, 0, maxFreq)

\* Q is kept as its logarithm to base 1.1, the factor of one wheel step, so
\* that Q * Math.pow(1.1, delta) is an addition: Q = 1 is 0, and the limits
\* 0.0001 and 1000 of the wheel handler are -96 and 72 steps
QOne == 0
QMinSteps == -96
QMaxSteps == 72

typesThatUseGain == {"peaking", "lowshelf", "highshelf"}
rotateTypes ==
    <<"peaking", "lowshelf", "highshelf", "lowpass", "highpass", "notch", "bandpass">>

\* audioContext.createBiquadFilter() with type, frequency, gain and Q of a stage
Biquad(node) ==
    [type |-> node.type, frequency |-> node.frequency, gain |-> node.gain, Q |-> node.q]

\* the canvas of the response curve is ResponseWidth pixels wide
ResponseWidth == 4

\* frequencyArray[i] = min(10^(i * step + log10(20)), maxFreq), for the
\* pixels 0 .. width - 1; these are the quarter points of the frequency axis
frequencyArray ==
    [i \in 1..ResponseWidth |-> ratioToFrequency(((i - 1) * 100) \div ResponseWidth)]

\* 20 * log10 of the magnitude node.getFrequencyResponse gives at frequency f,
\* in dB.  The host computes it; here a filter acts on its side of its
\* frequency only: a bell and a shelf by their gain, a pass filter by 12 dB,
\* a notch by 60 dB.
MagnitudeDB(node, f) ==
    CASE node.type = "peaking"   -> IF f = node.frequency THEN node.gain ELSE 0
      [] node.type = "lowshelf"  -> IF f <= node.frequency THEN node.gain ELSE 0
      [] node.type = "highshelf" -> IF f >= node.frequency THEN node.gain ELSE 0
      [] node.type = "lowpass"   -> IF f > node.frequency THEN -12 ELSE 0
      [] node.type = "highpass"  -> IF f < node.frequency THEN -12 ELSE 0
      [] node.type = "notch"     -> IF f = node.frequency THEN -60 ELSE 0
      [] OTHER                   -> IF f = node.frequency THEN 0 ELSE -12

\* dbResponse[i] after the first n instances have added their share
RECURSIVE dbResponse(_, _, _)
dbResponse(nodes, n, f) ==
    IF n = 0 THEN 0
    ELSE dbResponse(nodes, n - 1, f) + MagnitudeDB(nodes[n], f)

\* variant: each instance overwrites dbResponse[i] (= for +=)
renderEqualizerResponseAssign(s) ==
    IF ~s.audioReady THEN s
    ELSE [s EXCEPT !.equalizerDbResponse =
             [i \in 1..ResponseWidth |->
                 IF s.equalizerNodes = <<>> THEN 0
                 ELSE MagnitudeDB(s.equalizerNodes[Len(s.equalizerNodes)],
                                  frequencyArray[i])]]

\* the response curve is computed from the live instances; nothing is done
\* before the analysers exist
renderEqualizerResponse(s) ==
    IF ~s.audioReady THEN s
    ELSE [s EXCEPT !.equalizerDbResponse =
             [i \in 1..ResponseWidth |->
                 dbResponse(s.equalizerNodes, Len(s.equalizerNodes),
                            frequencyArray[i])]]

\* the markers are replaced; the document listeners of a marker that is being
\* dragged stay registered, with its index and its filter instance
updateEqualizerNodeMarkers(s) ==
    IF ~s.audioReady THEN s
    ELSE IF s.drag.i # 0 /\ ~s.drag.stale
         THEN [s EXCEPT !.drag = [i |-> s.drag.i, stale |-> TRUE,
                                  type |-> s.drag.type]]
         ELSE s

\* variant: the first half of refreshEQNodes without pre.disconnect(post)
DisconnectedKeepBypass(cs) ==
    LET c2 == {e \in cs : e[1].kind # "eq"}
    IN  {<<e[1], IF e[2].kind = "eq" THEN Stale ELSE e[2]>> : e \in c2}

\* the connections left by the first half of refreshEQNodes
Disconnected(cs) ==
    LET c1 == cs \ {<<Pre, Post>>}
        c2 == {e \in c1 : e[1].kind # "eq"}
    IN  {<<e[1], IF e[2].kind = "eq" THEN Stale ELSE e[2]>> : e \in c2}

\* the connections made by the second half of refreshEQNodes for n instances
Connected(n) ==
    {<<IF i = 1 THEN Pre ELSE Eq(i - 1), Eq(i)>> : i \in 1..n}
        \cup {IF n = 0 THEN <<Pre, Post>> ELSE <<Eq(n), Post>>}

\* the stages whose frequency or gain the host refuses (a TypeError of the
\* setter of AudioParam.value for a value that is not finite)
Refused(chain) ==
    {i \in 1..Len(chain) : chain[i].frequency = NaN \/ chain[i].gain = NaN}

\* the loop that creates the instances stops at the first stage the host
\* refuses: the instances before it have been pushed, nothing is connected
refreshEQNodesRefused(s, chain) ==
    LET first == CHOOSE i \in Refused(chain) : \A j \in Refused(chain) : i <= j
    IN  [s EXCEPT !.equalizerNodes = [i \in 1..(first - 1) |-> Biquad(chain[i])],
                  !.threw = TRUE]

refreshEQNodes(s) ==
    IF s.currentProfile = NULL THEN s
    ELSE LET chain == s.heap[s.currentProfile].equalizerNodes
             s1 == [s EXCEPT !.conns = Disconnected(s.conns),
                             !.equalizerNodes = <<>>]
         IN  IF ~s.audioReady
             \* this.audioContext / this.preAnalyser is undefined
             THEN [s1 EXCEPT !.threw = TRUE]
             ELSE IF Refused(chain) # {} THEN refreshEQNodesRefused(s1, chain)
             ELSE updateEqualizerNodeMarkers(renderEqualizerResponse(
                      [s1 EXCEPT !.equalizerNodes =
                                     [i \in 1..Len(chain) |-> Biquad(chain[i])],
                                 !.conns = s1.conns \cup Connected(Len(chain))]))

addEQNode(s, node) ==
    refreshEQNodes(
        [s EXCEPT !.heap[s.currentProfile].equalizerNodes = Append(@, node)])

\* click on the zero line node at x percent of the width
zeroLineClick(s, x) ==
    IF ~s.audioReady THEN s
    ELSE IF s.currentProfile = NULL THEN [s EXCEPT !.threw = TRUE]
    ELSE LET type == IF x = 0 THEN "highpass"
                     ELSE IF x = 100 THEN "lowpass" ELSE "peaking"
         IN  addEQNode(s, AudioEQNode(type, ratioToFrequency(x), 0, QOne))

\* keydown Delete / Backspace on marker i
markerDelete(s, i) ==
    refreshEQNodes(
        [s EXCEPT !.heap[s.currentProfile].equalizerNodes = RemoveAt(@, i)])

\* mousedown on marker i
markerMouseDown(s, i) ==
    [s EXCEPT !.drag = [i |-> i, stale |-> FALSE, type |-> s.equalizerNodes[i].type]]

\* the type of the filter instance the dragging closure holds
DragType(s) == IF s.drag.stale THEN s.drag.type ELSE s.equalizerNodes[s.drag.i].type

\* document mousemove while a marker closure is dragging, at (x, y) percent
markerMouseMove(s, x, y) ==
    LET i == s.drag.i
        frequency == ratioToFrequency(x)
        newDB == (Clamp(50 - y, -50, 50) * 40) \div 100
        usesGain == DragType(s) \in typesThatUseGain
        \* node.frequency.value = frequency
        s1 == IF s.drag.stale THEN s
              ELSE [s EXCEPT !.equalizerNodes[i].frequency = frequency]
    IN  IF i > Len(s.heap[s.currentProfile].equalizerNodes)
        \* this.currentProfile.equalizerNodes[i] is undefined
        THEN [s1 EXCEPT !.threw = TRUE]
        ELSE LET s2 == [s1 EXCEPT
                          !.heap[s.currentProfile].equalizerNodes[i].frequency = frequency]
             IN  IF ~usesGain THEN renderEqualizerResponse(s2)
                 ELSE LET s3 == IF s.drag.stale THEN s2
                                ELSE [s2 EXCEPT !.equalizerNodes[i].gain = newDB]
                      IN  renderEqualizerResponse(
                              [s3 EXCEPT
                                 !.heap[s.currentProfile].equalizerNodes[i].gain = newDB])

markerMouseUp(s) == [s EXCEPT !.drag = NoDrag]

\* wheel on marker i, delta being Math.sign(e.deltaY)
markerWheel(s, i, delta) ==
    LET q == Clamp(s.equalizerNodes[i].Q + delta, QMinSteps, QMaxSteps)
        s1 == [s EXCEPT !.equalizerNodes[i].Q = q]
    IN  IF i > Len(s.heap[s.currentProfile].equalizerNodes)
        THEN [s1 EXCEPT !.threw = TRUE]
        ELSE renderEqualizerResponse(
                 [s1 EXCEPT !.heap[s.currentProfile].equalizerNodes[i].q = q])

\* rotateTypes.indexOf(type), 0 if none
TypeIndex(type) ==
    LET hits == {k \in 1..Len(rotateTypes) : rotateTypes[k] = type}
    IN  IF hits = {} THEN 0 ELSE CHOOSE k \in hits : TRUE

\* double click (dir = 1) or double context menu (dir = -1) on marker i
markerRotate(s, i, dir) ==
    LET index == TypeIndex(s.equalizerNodes[i].type)
        n == Len(rotateTypes)
        newType == rotateTypes[((index - 1 + dir + n) % n) + 1]
        s1 == [s EXCEPT !.equalizerNodes[i].type = newType]
    IN  IF index = 0 THEN s
        ELSE IF i > Len(s.heap[s.currentProfile].equalizerNodes)
        THEN [s1 EXCEPT !.threw = TRUE]
        ELSE renderEqualizerResponse(
                 [s1 EXCEPT !.heap[s.currentProfile].equalizerNodes[i].type = newType])

----------------------------------------------------------------------------
(* Numbers of the mixer: decibels and fader positions                      *)
(*                                                                         *)
(* A float is a fixed-point number: a position ratio or a value of the log  *)
(* scale in units of 1/65536, a level in thousandths of a decibel.          *)

\* 1 as a fixed-point number; the gain of a channel is one, too
One == 65536
NegInfinity == -1000000000
MaxDB == 10000
MinDB == -50000

Abs(x) == IF x < 0 THEN -x ELSE x
Sign(x) == IF x > 0 THEN 1 ELSE IF x < 0 THEN -1 ELSE 0

\* a * b for fixed-point a, b below 4
MulFix(a, b) == (a * (b \div 256)) \div 256 + (a * (b % 256)) \div One

\* n / d as a fixed-point number, for 0 <= n and 0 < d below 1
DivFix(n, d) ==
    LET q1 == (n * 256) \div d
        r1 == (n * 256) % d
    IN  q1 * 256 + (r1 * 256) \div d

\* 10^(1/2), 10^(1/4), ..., 10^(1/65536)
Pow10Roots ==
    <<207243, 116541, 87394, 75680, 70425, 67937, 66726, 66128,
      65831, 65684, 65610, 65573, 65554, 65545, 65541, 65538>>

\* Math.pow(10, m) for 0 <= m < 1: the product of the roots of the bits of m
RECURSIVE Pow10From(_, _)
Pow10From(m, i) ==
    IF i > Len(Pow10Roots) THEN One
    ELSE LET rest == Pow10From(m, i + 1)
             bit == (m \div (2 ^ (Len(Pow10Roots) - i))) % 2
         IN  IF bit = 1 THEN MulFix(rest, Pow10Roots[i]) ELSE rest

Pow10(m) == Pow10From(m, 1)

\* Math.log10(u) for 1 <= u < 10: the greatest m with 10^m <= u
RECURSIVE Log10Between(_, _, _)
Log10Between(u, lo, hi) ==
    IF lo >= hi THEN lo
    ELSE LET mid == (lo + hi + 1) \div 2
         IN  IF Pow10(mid) <= u THEN Log10Between(u, mid, hi)
             ELSE Log10Between(u, lo, mid - 1)

Log10(u) == Log10Between(u, 0, One - 1)

\* |x / c| for x in thousandths of a dB and c = 40 / Math.log(10): x * 3.7726
OverC(x) == 3 * Abs(x) + (Abs(x) * 7726) \div 10000

\* c * u for a fixed-point u, in thousandths of a dB
TimesC(u) == (u * 10000) \div 37726

symmetricalLogScaleY(x) == Sign(x) * Log10(OverC(x) + One)

symmetricalLogScaleX(y) == Sign(y) * TimesC(Pow10(Abs(y)) - One)

MaxY == symmetricalLogScaleY(MaxDB)
MinY == symmetricalLogScaleY(MinDB)

\* variant: a position that is linear in the level
mixerDBToPositionRatioLinear(db) ==
    IF db <= MinDB THEN One
    ELSE LET n == MaxDB - db
         IN  Clamp(Sign(n) * DivFix(Abs(n), MaxDB - MinDB), 0, One)

mixerDBToPositionRatio(db) ==
    IF db <= MinDB THEN One
    ELSE LET y == symmetricalLogScaleY(db)
             n == MaxY - y
         IN  Clamp(Sign(n) * DivFix(Abs(n), MaxY - MinY), 0, One)

\* variant: without the clamp
mixerPositionRatioToDBNoClamp(ratio) ==
    IF ratio >= One THEN NegInfinity
    ELSE symmetricalLogScaleX(
             MaxY - Sign(ratio) * MulFix(MaxY - MinY, Abs(ratio)))

mixerPositionRatioToDB(ratio) ==
    IF ratio >= One THEN NegInfinity
    ELSE LET y == MaxY - Sign(ratio) * MulFix(MaxY - MinY, Abs(ratio))
         IN  Clamp(symmetricalLogScaleX(y), MinDB, MaxDB)

\* Math.pow(10, db / 20) as a fixed-point gain, 10^(-Infinity) being 0: the
\* exponent db / 20 is split into its integer part n and the rest m
dbToGain(db) ==
    IF db = NegInfinity THEN 0
    ELSE LET e == (db * 4096) \div 1250
             n == e \div One
             m == e % One
         IN  IF n >= 0 THEN Pow10(m) * (10 ^ n) ELSE Pow10(m) \div (10 ^ (0 - n))

----------------------------------------------------------------------------
(* Level meters *)

NoPeak == -1
PeakHold == 1000
PeakFull == 650
PeakFade == 350
MeterRects == 50
ByteMax == 255

\* the fields createMixerElements leaves on a new strip: no peak, nothing drawn
NewMeter == [peak |-> NoPeak, peakTime |-> 0, bars |-> 0, alpha |-> 0]

\* Math.ceil(volHeight / rectHeight) for a volume of v / 255: volHeight is
\* volume * height and rectHeight is height / 50
rectCount(v) == (v * MeterRects + ByteMax - 1) \div ByteMax

\* variant: the opacity fades from the moment the peak is set
freshnessFadeAtOnce(timeDiff) == PeakFade - (timeDiff * PeakFade) \div PeakHold

\* freshness of the peak line, in units of 1/350
freshness(timeDiff) ==
    IF timeDiff < PeakFull THEN PeakFade ELSE PeakFade - (timeDiff - PeakFull)

\* variant: the peak is replaced by every sample
latchAlways(el, h, t) == [el EXCEPT !.peak = h, !.peakTime = t]

\* if (!els.peak || rectCount > els.peak)
latch(el, h, t) ==
    IF el.peak = NoPeak \/ el.peak = 0 \/ h > el.peak
    THEN [el EXCEPT !.peak = h, !.peakTime = t]
    ELSE el

\* variant: the peak line is dropped after the hold time but the peak is kept
decayKeepPeak(el, t) ==
    LET timeDiff == t - el.peakTime
    IN  IF timeDiff < PeakHold /\ el.peak >= 1
        THEN [el EXCEPT !.alpha = freshness(timeDiff)]
        ELSE [el EXCEPT !.alpha = 0]

\* the peak line is drawn with its freshness, or the peak is reset
decay(el, t) ==
    LET timeDiff == t - el.peakTime
    IN  IF timeDiff < PeakHold /\ el.peak >= 1
        THEN [el EXCEPT !.alpha = freshness(timeDiff)]
        ELSE [el EXCEPT !.peak = 0, !.peakTime = t, !.alpha = 0]

\* the body of channels.forEach in renderMixerMeters for one strip: h bars
\* are drawn, then the peak line
drawMeter(el, v, t) ==
    LET h == rectCount(v)
    IN  decay([latch(el, h, t) EXCEPT !.bars = h], t)

\* channels.forEach of renderMixerMeters from channel j on; volumes[k] is what
\* getVolume reads from the analyser of channel k - 1, times 255
RECURSIVE renderChannels(_, _, _, _, _)
renderChannels(s, channels, j, volumes, shown) ==
    IF j > Len(channels) THEN s
    ELSE IF ~s.audioReady
         \* this.channelAnalyzers is undefined
         THEN [s EXCEPT !.threw = TRUE]
         ELSE LET k == channels[j].id + 1
                  skip == \/ k \notin 1..NumChannels
                          \/ k \notin 1..Len(s.meters)
                          \/ ~shown
                  el == drawMeter(s.meters[k], volumes[k], s.now)
                  held == latch(s.meters[k], rectCount(volumes[k]), s.now)
                  s1 == IF skip THEN s
                        ELSE [s EXCEPT !.meters[k] = el,
                                       !.note = IF held.peak >= 1 /\ el.peak = 0
                                                THEN "reset"
                                                ELSE IF @ = "reset" THEN @
                                                ELSE "drawn"]
              \* the state after channel j is computed once
              IN  CHOOSE r \in {renderChannels(x, channels, j + 1, volumes, shown) :
                                   x \in {s1}} : TRUE

renderMixerMeters(s, volumes, shown) ==
    IF s.currentProfile = NULL THEN s
    ELSE renderChannels(s, s.heap[s.currentProfile].mixerChannels, 1,
                        volumes, shown)

\* a frame of the render loop: it ends the loop when the loop has been
\* stopped; else it requests the next frame, the response curve is computed
\* again when the width of the equalizer has changed, and the meters are drawn
renderLoop(s, resized, volumes, shown) ==
    IF ~s.shouldRunRenderLoop THEN [s EXCEPT !.renderLoopRunning = FALSE]
    ELSE LET s1 == [s EXCEPT !.frames = @ + 1]
         IN  renderMixerMeters(IF resized THEN renderEqualizerResponse(s1) ELSE s1,
                               volumes, shown)

\* variant: startRenderLoop without the test of renderLoopRunning
startRenderLoopAlways(s, resized, volumes, shown) ==
    renderLoop([s EXCEPT !.shouldRunRenderLoop = TRUE,
                         !.renderLoopRunning = TRUE],
               resized, volumes, shown)

\* the first frame is drawn at once
startRenderLoop(s, resized, volumes, shown) ==
    IF s.renderLoopRunning THEN s
    ELSE renderLoop([s EXCEPT !.shouldRunRenderLoop = TRUE,
                              !.renderLoopRunning = TRUE],
                    resized, volumes, shown)

stopRenderLoop(s) == [s EXCEPT !.shouldRunRenderLoop = FALSE]

openUI(s, resized, volumes, shown) ==
    startRenderLoop([s EXCEPT !.displayed = TRUE], resized, volumes, shown)

closeUI(s) == stopRenderLoop([s EXCEPT !.displayed = FALSE])

----------------------------------------------------------------------------
(* Mixer *)

\* channels.find((channel) => channel.solo): its index, 0 if none
FirstSolo(channels) ==
    LET hits == {j \in 1..Len(channels) : channels[j].solo}
    IN  IF hits = {} THEN 0 ELSE CHOOSE j \in hits : \A k \in hits : j <= k

\* variant: updateMixerNodes without the exemption of the master channel
NodeGainMasterSilenced(channels, j) ==
    LET soloChannel == FirstSolo(channels)
    IN  IF soloChannel # 0 /\ j # soloChannel
        THEN 0
        ELSE IF channels[j].muted THEN 0 ELSE channels[j].gain

\* the value updateMixerNodes gives the gain node of channels[j]
NodeGain(channels, j) ==
    LET soloChannel == FirstSolo(channels)
    IN  IF soloChannel # 0 /\ j # soloChannel /\ channels[j].id # MasterId
        THEN 0
        ELSE IF channels[j].muted THEN 0 ELSE channels[j].gain

\* channels.forEach of updateMixerNodes from channel j on; a channel whose id
\* names no gain node makes the handler throw
RECURSIVE pushGains(_, _, _)
pushGains(s, channels, j) ==
    IF j > Len(channels) THEN s
    ELSE IF channels[j].id + 1 \notin 1..Len(s.channelGains)
         THEN [s EXCEPT !.threw = TRUE]
         ELSE pushGains([s EXCEPT !.channelGains[channels[j].id + 1] =
                                      NodeGain(channels, j)],
                        channels, j + 1)

updateMixerNodes(s) ==
    IF s.channelGains = <<>> \/ s.currentProfile = NULL THEN s
    ELSE pushGains(s, s.heap[s.currentProfile].mixerChannels, 1)

\* channel k (from 0) of the profile the mixer closures captured
setChannelGain(s, k, gain) ==
    LET id == s.heap[s.mixerBound].mixerChannels[k + 1].id
        s1 == [s EXCEPT !.heap[s.mixerBound].mixerChannels[k + 1].gain = gain]
    IN  IF id + 1 \in 1..Len(s.channelGains)
        THEN [s1 EXCEPT !.channelGains[id + 1] = gain]
        ELSE s1

\* document mousemove while the volume handle of strip k is dragged, or a
\* click on its track, at y percent of the height of the track
volumeMouseMove(s, k, y) ==
    LET zeroPos == mixerDBToPositionRatio(0)
        ratio == (Clamp(y, 0, 100) * One) \div 100
        snapped == IF 40 * Abs(ratio - zeroPos) < One THEN zeroPos ELSE ratio
        newRatio == IF 100 * snapped >= 98 * One THEN One ELSE snapped
    IN  setChannelGain(s, k, dbToGain(mixerPositionRatioToDB(newRatio)))

soloClickNoClear(s, k) ==
    updateMixerNodes(
        [s EXCEPT !.heap[s.mixerBound].mixerChannels[k + 1].solo = ~@])

\* the loop of the solo handler over the captured profile's channels: it
\* looks up the strip of each channel by channel.id before it clears the flag
clearSolo(channels) ==
    LET bad == {j \in 1..Len(channels) : channels[j].id \notin 0..(NumChannels - 1)}
        stop == IF bad = {} THEN Len(channels)
                ELSE CHOOSE j \in bad : \A j2 \in bad : j <= j2
    IN  [threw |-> bad # {},
         channels |-> [j \in 1..Len(channels) |->
                          IF j <= stop THEN [channels[j] EXCEPT !.solo = FALSE]
                          ELSE channels[j]]]

soloClick(s, k) ==
    LET channels == s.heap[s.mixerBound].mixerChannels
        c == IF ~channels[k + 1].solo THEN clearSolo(channels)
             ELSE [threw |-> FALSE, channels |-> channels]
    IN  IF c.threw
        THEN [s EXCEPT !.heap[s.mixerBound].mixerChannels = c.channels,
                       !.threw = TRUE]
        ELSE updateMixerNodes(
                 [s EXCEPT !.heap[s.mixerBound].mixerChannels =
                               [c.channels EXCEPT ![k + 1].solo = ~@]])

muteClick(s, k) ==
    updateMixerNodes(
        [s EXCEPT !.heap[s.mixerBound].mixerChannels[k + 1].muted = ~@])

\* mixerChannels padded to 7 entries, the 7 channel strips created anew
refreshMixer(s) ==
    IF s.currentProfile = NULL
    THEN [s EXCEPT !.mixerBound = NULL, !.meters = <<>>]
    ELSE LET channels == s.heap[s.currentProfile].mixerChannels
             padded == [j \in 1..(IF Len(channels) < NumChannels
                                  THEN NumChannels ELSE Len(channels)) |->
                          IF j <= Len(channels) THEN channels[j]
                          ELSE AudioChannelControl(j - 1, One, FALSE, FALSE)]
         IN  updateMixerNodes(
                 [s EXCEPT !.heap[s.currentProfile].mixerChannels = padded,
                           !.mixerBound = s.currentProfile,
                           !.meters = [k \in 1..NumChannels |-> NewMeter]])

----------------------------------------------------------------------------
(* Startup and persistence *)

\* the callback of chrome.storage.local.get in loadProfilesFromStorage
RECURSIVE loadStored(_, _, _)
loadStored(s, objs, k) ==
    IF k > Len(objs) THEN s
    ELSE LET n == Alloc(s.heap)
         IN  loadStored([s EXCEPT !.heap = (n :> ProfileFromObj(objs[k])) @@ s.heap,
                                  !.profiles = Append(s.profiles, n)],
                        objs, k + 1)

loadProfilesFromStorage(s, data) ==
    LET s1 == IF Len(data.audioProfiles) = 0
              THEN LET a == newProfile(s) IN setCurrentProfile(a, a.profiles[1])
              ELSE LET a == loadStored([s EXCEPT !.profiles = <<>>],
                                       data.audioProfiles, 1)
                       i == FindById(a, data.currentAudioProfile)
                       b == setCurrentProfile(a, a.profiles[IF i # 0 THEN i ELSE 1])
                   IN  updateProfileDropdown(b, NoDefault)
        s2 == refreshEQNodes(s1)
    IN  IF s2.threw THEN s2 ELSE refreshMixer(s2)

\* variant: the write leaves out the profile added last
StoredDataButLast(s) ==
    [audioProfiles |-> [i \in 1..(Len(s.profiles) - 1) |->
                           ProfileToObj(s.heap[s.profiles[i]])],
     currentAudioProfile |->
        IF s.currentProfile # NULL /\ s.heap[s.currentProfile].id # 0
        THEN s.heap[s.currentProfile].id
        ELSE IF Len(s.profiles) > 0 THEN s.heap[s.profiles[1]].id ELSE 0]

\* what the timer of saveProfilesToStorage writes when it fires
StoredData(s) ==
    [audioProfiles |-> [i \in 1..Len(s.profiles) |-> ProfileToObj(s.heap[s.profiles[i]])],
     currentAudioProfile |->
        IF s.currentProfile # NULL /\ s.heap[s.currentProfile].id # 0
        THEN s.heap[s.currentProfile].id
        ELSE IF Len(s.profiles) > 0 THEN s.heap[s.profiles[1]].id ELSE 0]

\* the analysers give no level while the nodes are being set up
Silence == [k \in 1..NumChannels |-> 0]

\* an exception of refreshEQNodes ends setupNodes before the channel nodes
\* exist; at the end the render loop is started if the panel is displayed
setupNodes(s) ==
    LET s1 == refreshEQNodes([s EXCEPT !.audioReady = TRUE,
                                       !.conns = s.conns \cup {<<Pre, Post>>}])
        s2 == refreshMixer([s1 EXCEPT !.channelGains = [k \in 1..NumChannels |-> One]])
    IN  IF s1.threw THEN s1
        ELSE IF s2.displayed THEN startRenderLoop(s2, TRUE, Silence, TRUE)
        ELSE s2

\* click on the Load Profile button
loadClick(s) ==
    LET profile == getDropdownProfile(s)
    IN  IF profile = NULL THEN updateProfileDropdown(s, NoDefault)
        ELSE refreshEQNodes(setCurrentProfile(s, profile))

\* click on the Delete button
deleteClick(s) ==
    LET profile == getDropdownProfile(s)
    IN  IF profile = NULL THEN updateProfileDropdown(s, NoDefault)
        ELSE deleteProfile(s, profile)

----------------------------------------------------------------------------
(* MonoUpscaler *)

\* a field never assigned, a field set to null, a field that holds a node
Undefined == "undefined"
Null == "null"
Node == "node"

\* the direct connection of the input node to the output node
Direct == <<"input", "output">>

\* the route through the splitter, the merger and the stereo panner
Route ==
    {<<"splitter", "merger">>, <<"input", "splitter">>,
     <<"input", "stereoPanner">>, <<"merger", "output">>}

\* new MonoUpscaler(): no audio context and no nodes yet, bypassed
MonoUpscaler ==
    [bypassed |-> TRUE, audioContext |-> FALSE, splitter |-> Undefined,
     merger |-> Undefined, stereoPanner |-> Undefined, links |-> {},
     threw |-> FALSE]

\* enable() returns at once for a bypassed module or without audio context
enable(u) ==
    IF u.bypassed \/ ~u.audioContext THEN u
    ELSE [u EXCEPT !.splitter = Node, !.merger = Node, !.stereoPanner = Node,
                   !.links = (@ \ {Direct}) \cup Route,
                   !.bypassed = FALSE]

\* disable() of a bypassed module; without a splitter it throws, at the first
\* disconnect (early) or at this.splitter.disconnect() after the direct
\* connection has been made again
disable(u, early) ==
    IF ~u.bypassed THEN u
    ELSE IF ~u.audioContext \/ (u.splitter # Node /\ early)
         THEN [u EXCEPT !.threw = TRUE]
    ELSE IF u.splitter # Node
         THEN [u EXCEPT !.links = (@ \ Route) \cup {Direct}, !.threw = TRUE]
    ELSE [u EXCEPT !.links = (@ \ Route) \cup {Direct},
                   !.splitter = Null, !.merger = Null, !.stereoPanner = Null,
                   !.bypassed = TRUE]

\* MonoUpscaler.setupNodes: super.setupNodes gives the module its audio
\* context and its input and output nodes, which are then connected directly
upscalerSetupNodes(u) ==
    LET u1 == [u EXCEPT !.audioContext = TRUE, !.links = @ \cup {Direct}]
    IN  IF ~u1.bypassed THEN enable(disable(u1, FALSE)) ELSE u1

----------------------------------------------------------------------------
(* The state machine *)

St ==
    [heap |-> heap, profiles |-> profiles, currentProfile |-> currentProfile,
     dropdownVal |-> dropdownVal, saveTimeout |-> saveTimeout,
     timers |-> timers, lastSave |-> lastSave, meters |-> meters, now |-> now,
     audioReady |-> audioReady, equalizerNodes |-> equalizerNodes,
     equalizerDbResponse |-> equalizerDbResponse,
     shouldRunRenderLoop |-> shouldRunRenderLoop,
     renderLoopRunning |-> renderLoopRunning, frames |-> frames,
     displayed |-> displayed,
     conns |-> conns, drag |-> drag, channelGains |-> channelGains,
     mixerBound |-> mixerBound, threw |-> FALSE, note |-> ""]

\* the handler op has run and left the state s
Run(op, s) ==
    \E c \in {Collect(s)} :
        /\ heap' = c.heap
        /\ profiles' = c.profiles
        /\ currentProfile' = c.currentProfile
        /\ dropdownVal' = c.dropdownVal
        /\ saveTimeout' = c.saveTimeout
        /\ timers' = c.timers
        /\ lastSave' = c.lastSave
        /\ meters' = c.meters
        /\ now' = now
        /\ calc' = calc
        /\ audioReady' = c.audioReady
        /\ equalizerNodes' = c.equalizerNodes
        /\ equalizerDbResponse' = c.equalizerDbResponse
        /\ shouldRunRenderLoop' = c.shouldRunRenderLoop
        /\ renderLoopRunning' = c.renderLoopRunning
        /\ frames' = c.frames
        /\ displayed' = c.displayed
        /\ upscaler' = upscaler
        /\ conns' = c.conns
        /\ drag' = c.drag
        /\ channelGains' = c.channelGains
        /\ mixerBound' = c.mixerBound
        /\ last' = [op |-> op, threw |-> c.threw, note |-> c.note]

(* Inputs *)

\* no mapping applied yet
NoCalc == [fn |-> "", arg |-> 0, val |-> 0, prev |-> <<>>]

\* levels from -55 dB to 12 dB in steps of 0.5 dB, and -Infinity
DBInputs == {NegInfinity} \cup {500 * k : k \in -110..24}

\* positions from -1/16 to 17/16 in steps of 1/64
RatioInputs == {1024 * k : k \in -4..68}

PercentInputs == {0, 25, 50, 75, 100}

EmptyStorage == [audioProfiles |-> <<>>, currentAudioProfile |-> -1]

\* written by an earlier session: one profile with one peaking stage
SavedStorage ==
    [audioProfiles |->
        <<[id |-> 1, label |-> <<"Profile", 1>>,
           equalizerNodes |-> <<AudioEQNode("peaking", ratioToFrequency(50), 0, QOne)>>,
           mixerChannels |-> [j \in 1..NumChannels |->
                                 AudioChannelControl(j - 1, One, FALSE, FALSE)]]>>,
     currentAudioProfile |-> 1]

StorageInputs == {EmptyStorage, SavedStorage}

\* documents read from a file: a profile as the Download button writes it (no
\* id), one whose channels 0 and 1 are both soloed, and one of another type
PlainEntry ==
    [id |-> NULL, label |-> <<"Profile", 1>>,
     equalizerNodes |-> <<>>, mixerChannels |-> <<>>]
SoloEntry ==
    [id |-> NULL, label |-> <<"Solo">>, equalizerNodes |-> <<>>,
     mixerChannels |-> [j \in 1..NumChannels |->
                           AudioChannelControl(j - 1, One, FALSE, j <= 2)]]
\* a profile whose second stage has no frequency
BrokenEntry ==
    [id |-> NULL, label |-> <<"Broken">>,
     equalizerNodes |-> <<AudioEQNode("peaking", ratioToFrequency(50), 0, QOne),
                          AudioEQNode("peaking", NaN, 0, QOne)>>,
     mixerChannels |-> <<>>]
BrokenDoc == [type |-> "audioProfile", version |-> 1, profiles |-> <<BrokenEntry>>]
\* a document whose second entry is null
NullEntry == [null |-> TRUE]
MixedDoc ==
    [type |-> "audioProfile", version |-> 1, profiles |-> <<PlainEntry, NullEntry>>]
PlainDoc == [type |-> "audioProfile", version |-> 1, profiles |-> <<PlainEntry>>]
SoloDoc == [type |-> "audioProfile", version |-> 1, profiles |-> <<SoloEntry>>]
OtherDoc == [type |-> "playlist", version |-> 1, profiles |-> <<PlainEntry>>]

Init ==
    /\ heap = <<>>
    /\ profiles = <<>>
    /\ currentProfile = NULL
    /\ dropdownVal = 0
    /\ saveTimeout = 0
    /\ timers = {}
    /\ lastSave = -1
    /\ meters = <<>>
    /\ now = 0
    /\ calc = NoCalc
    /\ audioReady = FALSE
    /\ equalizerNodes = <<>>
    /\ equalizerDbResponse = <<>>
    /\ shouldRunRenderLoop = FALSE
    /\ renderLoopRunning = FALSE
    /\ frames = 0
    /\ displayed = FALSE
    /\ upscaler = MonoUpscaler
    /\ conns = {}
    /\ drag = NoDrag
    /\ channelGains = <<>>
    /\ mixerBound = NULL
    /\ storage \in StorageInputs
    /\ loaded = FALSE
    /\ last = [op |-> "constructor", threw |-> FALSE, note |-> ""]

LoadDone ==
    /\ ~loaded
    /\ loaded' = TRUE
    /\ Run("loadProfilesFromStorage", loadProfilesFromStorage(St, storage))
    /\ UNCHANGED storage

SetupNodes ==
    /\ ~audioReady
    /\ Run("setupNodes", setupNodes(St))
    /\ UNCHANGED <<storage, loaded>>

\* the host runs the callback of a timer that is due: it writes the profiles
TimerFires ==
    \E tm \in timers :
        /\ now >= tm.due
        /\ timers' = timers \ {tm}
        /\ storage' = StoredData(St)
        /\ last' = [op |-> "saveTimeout", threw |-> FALSE, note |-> ""]
        /\ UNCHANGED <<heap, profiles, currentProfile, dropdownVal, saveTimeout,
                       lastSave, audioReady, equalizerNodes, equalizerDbResponse, conns,
                       shouldRunRenderLoop, renderLoopRunning, frames, displayed,
          upscaler,
                       drag, channelGains, mixerBound, loaded, meters, now, calc>>

\* a method of the MonoUpscaler has run and left the module as u
RunUpscaler(op, u) ==
    /\ upscaler' = [u EXCEPT !.threw = FALSE]
    /\ last' = [op |-> op, threw |-> u.threw, note |-> ""]
    /\ UNCHANGED <<heap, profiles, currentProfile, dropdownVal, saveTimeout,
                   timers, lastSave, audioReady, equalizerNodes, equalizerDbResponse,
                   shouldRunRenderLoop, renderLoopRunning, frames, displayed,
                   conns, drag, channelGains, mixerBound, storage, loaded, meters,
                   now, calc>>

UpscalerSetupNodes ==
    /\ ~upscaler.audioContext
    /\ RunUpscaler("MonoUpscaler.setupNodes", upscalerSetupNodes(upscaler))

Enable == RunUpscaler("enable", enable(upscaler))

Disable(early) == RunUpscaler("disable", disable(upscaler, early))

\* the handlers of the user interface
UI(op, s) == loaded /\ Run(op, s) /\ UNCHANGED <<storage, loaded>>

DropdownCreate ==
    /\ Len(profiles) < MaxProfiles
    /\ UI("newProfile", newProfile(St))

DropdownSelect ==
    \E i \in 1..Len(profiles) :
        /\ heap[profiles[i]].id # dropdownVal
        /\ UI("select", ClickOption(St, heap[profiles[i]].id))

DeleteClick == UI("deleteProfile", deleteClick(St))

LoadClick == UI("loadClick", loadClick(St))

SaveClick == UI("saveCurrentProfile", saveCurrentProfile(St))

Import(doc) ==
    /\ Len(profiles) + Cardinality({k \in 1..Len(doc.profiles) :
                                       IsObject(doc.profiles[k])}) <= MaxProfiles
    /\ UI("loadProfileFile", loadProfileFile(St, doc))

\* a click of the mouse comes after a mouseup, which ends a drag
ZeroLineClick(x) ==
    /\ audioReady
    /\ drag = NoDrag
    /\ currentProfile # NULL => Len(heap[currentProfile].equalizerNodes) < MaxStages
    /\ UI("addEQNode", zeroLineClick(St, x))

MarkerDelete ==
    \E i \in 1..Len(equalizerNodes) : UI("markerDelete", markerDelete(St, i))

MarkerMouseDown ==
    /\ drag = NoDrag
    /\ \E i \in 1..Len(equalizerNodes) : UI("markerMouseDown", markerMouseDown(St, i))

MarkerMouseMove(x, y) ==
    /\ drag # NoDrag
    /\ UI("markerMouseMove", markerMouseMove(St, x, y))

MarkerMouseUp ==
    /\ drag # NoDrag
    /\ UI("markerMouseUp", markerMouseUp(St))

MarkerWheel(delta) ==
    \E i \in 1..Len(equalizerNodes) :
        /\ equalizerNodes[i].Q + delta \in (QOne - MaxWheel)..(QOne + MaxWheel)
        /\ UI("markerWheel", markerWheel(St, i, delta))

MarkerRotate(dir) ==
    /\ drag = NoDrag
    /\ \E i \in 1..Len(equalizerNodes) : UI("markerRotate", markerRotate(St, i, dir))

VolumeMove(k, y) ==
    /\ mixerBound # NULL
    /\ UI("setChannelGain", volumeMouseMove(St, k, y))

SoloClick(k) ==
    /\ mixerBound # NULL
    /\ k # MasterId
    /\ UI("soloClick", soloClick(St, k))

MuteClick(k) ==
    /\ mixerBound # NULL
    /\ UI("muteClick", muteClick(St, k))

\* time passes
Advance(dt) ==
    /\ now + dt <= MaxNow
    /\ now' = now + dt
    /\ last' = [op |-> "time", threw |-> FALSE, note |-> ""]
    /\ UNCHANGED <<heap, profiles, currentProfile, dropdownVal, saveTimeout,
                   timers, lastSave, audioReady, equalizerNodes, equalizerDbResponse,
                   shouldRunRenderLoop, renderLoopRunning, frames, displayed,
          upscaler,
                   conns, drag, channelGains, mixerBound, storage, loaded, meters,
                   calc>>

\* what the analysers give when only the first channel carries a signal
Volumes(v) == [k \in 1..NumChannels |-> IF k = 1 THEN v ELSE 0]

\* a frame of the render loop draws the meters; the canvases have a size or not
RenderMeters(v, shown) ==
    /\ Run("renderMixerMeters", renderMixerMeters(St, Volumes(v), shown))
    /\ UNCHANGED <<storage, loaded>>

\* the host runs a pending callback of requestAnimationFrame: a frame of the
\* render loop, the equalizer resized since the last or not
RenderLoop(resized) ==
    /\ frames > 0
    /\ Run("renderLoop",
           renderLoop([St EXCEPT !.frames = @ - 1], resized, Volumes(0), TRUE))
    /\ UNCHANGED <<storage, loaded>>

\* a click on the button of the panel while the panel is not displayed
OpenUI ==
    /\ ~displayed
    /\ frames < MaxFrames
    /\ Run("openUI", openUI(St, TRUE, Volumes(0), TRUE))
    /\ UNCHANGED <<storage, loaded>>

\* a click on the button while it is displayed, on its close button or on
\* the player
CloseUI ==
    /\ Run("closeUI", closeUI(St))
    /\ UNCHANGED <<storage, loaded>>

\* the mappings of the mixer and of the frequency axis, applied to an input;
\* nothing else changes
Applied(fn, arg, val, prev) ==
    /\ calc' = [fn |-> fn, arg |-> arg, val |-> val, prev |-> prev]
    /\ last' = [op |-> fn, threw |-> FALSE, note |-> ""]
    /\ UNCHANGED <<heap, profiles, currentProfile, dropdownVal, saveTimeout,
                   timers, lastSave, audioReady, equalizerNodes, equalizerDbResponse,
                   shouldRunRenderLoop, renderLoopRunning, frames, displayed,
          upscaler,
                   conns, drag, channelGains, mixerBound, storage, loaded, meters,
                   now>>

DBToPosition(db) ==
    Applied("mixerDBToPositionRatio", db, mixerDBToPositionRatio(db), <<>>)

PositionToDB(ratio) ==
    Applied("mixerPositionRatioToDB", ratio, mixerPositionRatioToDB(ratio), <<>>)

\* the position a level gave is mapped back to a level
PositionBack ==
    /\ calc.fn = "mixerDBToPositionRatio"
    /\ Applied("mixerPositionRatioToDB", calc.val,
               mixerPositionRatioToDB(calc.val), <<calc.arg, calc.val>>)

\* ratioToFrequency reads the sample rate of the audio context
Frequency(percent) ==
    /\ audioReady
    /\ Applied("ratioToFrequency", percent, ratioToFrequency(percent),
               IF calc.fn = "ratioToFrequency" THEN <<calc.arg, calc.val>>
               ELSE <<>>)

----------------------------------------------------------------------------
(* Specifications.  Each one lets the environment use a part of the user    *)
(* interface, with the inputs named in it.                                 *)

\* the profile manager, with a few edits of the active profile
Next ==
    \/ LoadDone
    \/ SetupNodes
    \/ DropdownCreate
    \/ DropdownSelect
    \/ DeleteClick
    \/ LoadClick
    \/ SaveClick
    \/ \E doc \in {PlainDoc, OtherDoc, MixedDoc} : Import(doc)
    \/ ZeroLineClick(50)

Spec == Init /\ [][Next]_vars

\* the equalizer
NextChain ==
    \/ LoadDone
    \/ SetupNodes
    \/ LoadClick
    \/ \E x \in {50, 100} : ZeroLineClick(x)
    \/ MarkerDelete
    \/ MarkerMouseDown
    \/ \E y \in {0, 50} : MarkerMouseMove(100, y)
    \/ MarkerMouseUp
    \/ MarkerWheel(1)

SpecChain == Init /\ [][NextChain]_vars

\* the mixer
NextMixer ==
    \/ LoadDone
    \/ SetupNodes
    \/ Import(SoloDoc)
    \/ DropdownSelect
    \/ LoadClick
    \/ \E k \in {1, MasterId}, y \in {0, 100} : VolumeMove(k, y)
    \/ \E k \in {0, 1} : SoloClick(k)
    \/ \E k \in {0, MasterId} : MuteClick(k)

SpecMixer == Init /\ [][NextMixer]_vars

\* the edits of the active profile, between two activations
NextEdit ==
    \/ LoadDone
    \/ SetupNodes
    \/ DropdownCreate
    \/ DropdownSelect
    \/ LoadClick
    \/ ZeroLineClick(50)
    \/ MarkerDelete
    \/ MarkerMouseDown
    \/ MarkerMouseMove(100, 0)
    \/ MarkerMouseUp
    \/ VolumeMove(0, 0)
    \/ SoloClick(0)
    \/ MuteClick(0)

SpecEdit == Init /\ [][NextEdit]_vars

\* the parameters of a stage: a drag up to 20 dB, the wheel and double clicks
NextParams ==
    \/ LoadDone
    \/ SetupNodes
    \/ ZeroLineClick(50)
    \/ MarkerDelete
    \/ MarkerMouseDown
    \/ MarkerMouseMove(75, 0)
    \/ MarkerMouseUp
    \/ MarkerWheel(1)
    \/ \E dir \in {1, -1} : MarkerRotate(dir)

SpecParams == Init /\ [][NextParams]_vars

\* rebuilds that fail: a profile from a file has a stage the host refuses
NextRebuild ==
    \/ LoadDone
    \/ SetupNodes
    \/ Import(BrokenDoc)
    \/ DropdownSelect
    \/ LoadClick
    \/ \E x \in {50, 100} : ZeroLineClick(x)
    \/ MarkerDelete

SpecRebuild == Init /\ [][NextRebuild]_vars

\* the response curve: stages at 20 Hz and at the middle of the axis, dragged
\* to the middle or to three quarters of it, at 20 dB or 6 dB
NextResponse ==
    \/ LoadDone
    \/ SetupNodes
    \/ \E x \in {0, 50} : ZeroLineClick(x)
    \/ MarkerDelete
    \/ MarkerMouseDown
    \/ \E x \in {50, 75}, y \in {0, 35} : MarkerMouseMove(x, y)
    \/ MarkerMouseUp
    \/ OpenUI
    \/ \E resized \in BOOLEAN : RenderLoop(resized)

SpecResponse == Init /\ [][NextResponse]_vars

\* the level meters: volumes 0, 13/255 and 51/255 give 0, 3 and 10 bars
NextMeter ==
    \/ LoadDone
    \/ SetupNodes
    \/ \E dt \in {350, 650, 1100} : Advance(dt)
    \/ \E v \in {0, 13, 51}, shown \in BOOLEAN : RenderMeters(v, shown)

SpecMeter == Init /\ [][NextMeter]_vars

\* persistence: requests to save, the passing of time and the timer
NextSave ==
    \/ LoadDone
    \/ DropdownCreate
    \/ DeleteClick
    \/ \E dt \in {200, 300} : Advance(dt)
    \/ TimerFires

SpecSave == Init /\ [][NextSave]_vars

\* persistence in the long run: the host runs a timer that is due and time
\* goes on; the requests stop early enough for the clock to reach the last
\* due time
NextSettle ==
    \/ /\ now + SaveDelay + MaxStep <= MaxNow
       /\ (LoadDone \/ DropdownCreate \/ DeleteClick)
    \/ \E dt \in {200, MaxStep} : Advance(dt)
    \/ TimerFires

SpecSettle ==
    /\ Init
    /\ [][NextSettle]_vars
    /\ WF_vars(TimerFires)
    /\ WF_vars(\E dt \in {200, MaxStep} : Advance(dt))

\* the profile store and its writes: profiles are created, selected, deleted,
\* imported and loaded; time passes in steps after which a timer is due
NextStore ==
    \/ LoadDone
    \/ SetupNodes
    \/ DropdownCreate
    \/ DropdownSelect
    \/ DeleteClick
    \/ LoadClick
    \/ Import(PlainDoc)
    \/ Advance(2 * SaveDelay)
    \/ TimerFires

SpecStore == Init /\ [][NextStore]_vars

\* the render loop: the panel is opened and closed, the host runs the frames
NextLoop ==
    \/ LoadDone
    \/ SetupNodes
    \/ OpenUI
    \/ CloseUI
    \/ \E resized \in BOOLEAN : RenderLoop(resized)

SpecLoop ==
    /\ Init
    /\ [][NextLoop]_vars
    /\ WF_vars(\E resized \in BOOLEAN : RenderLoop(resized))

\* the mono upscaler next to the manager: both are set up by the player, the
\* upscaler is enabled and disabled while the panel and its loop run
NextUpscaler ==
    \/ LoadDone
    \/ SetupNodes
    \/ OpenUI
    \/ CloseUI
    \/ RenderLoop(FALSE)
    \/ UpscalerSetupNodes
    \/ Enable
    \/ \E early \in BOOLEAN : Disable(early)

SpecUpscaler == Init /\ [][NextUpscaler]_vars

\* the numeric mappings
NextMap ==
    \/ SetupNodes
    \/ \E db \in DBInputs : DBToPosition(db)
    \/ \E ratio \in RatioInputs : PositionToDB(ratio)
    \/ PositionBack
    \/ \E percent \in PercentInputs : Frequency(percent)

SpecMap == Init /\ [][NextMap]_vars

----------------------------------------------------------------------------
(* Claims *)

\* the stored profiles, by place: ids, labels, chains and channels
StoreView == [i \in 1..Len(profiles) |-> heap[profiles[i]]]

\* the active profile
Current == heap[currentProfile]

\* C1: once the initial load has completed the store holds at least one
\* profile, and after a delete that emptied the store it holds exactly one
\* profile, a new one with no filter stage and no channel.
C1_StoreNeverEmpty ==
    /\ loaded => Len(profiles) >= 1
    /\ (last.op = "deleteProfile" /\ last.note = "recreated") =>
          /\ Len(profiles) = 1
          /\ heap[profiles[1]] = AudioProfile(heap[profiles[1]].id)

C1_Witness ==
    /\ last.op = "deleteProfile"
    /\ last.note = "recreated"
    /\ Len(profiles) = 1
    /\ heap[profiles[1]].equalizerNodes = <<>>
    /\ Len(Current.equalizerNodes) > 0

EditOps ==
    {"addEQNode", "markerDelete", "markerMouseMove", "markerWheel",
     "markerRotate", "setChannelGain", "soloClick", "muteClick"}

\* C2: a step that edits the active profile (a stage added, removed or
\* changed, a channel's gain, mute or solo changed) leaves every stored
\* profile as it was.
C2_EditsLeaveStore ==
    [][last'.op \in EditOps => StoreView' = StoreView]_vars

C2_Witness ==
    /\ last.op \in {"markerMouseMove", "setChannelGain"}
    /\ \E i \in 1..Len(profiles) :
          /\ heap[profiles[i]].id = Current.id
          /\ Len(heap[profiles[i]].equalizerNodes) = Len(Current.equalizerNodes)
          /\ Len(heap[profiles[i]].mixerChannels) = Len(Current.mixerChannels)
          /\ heap[profiles[i]].equalizerNodes # Current.equalizerNodes
          /\ heap[profiles[i]].mixerChannels # Current.mixerChannels

\* C10: loadProfileFile with a document whose type is not "audioProfile"
\* throws, and the stored profiles (list, ids, labels) are as before.
C10_WrongTypeRejected ==
    [][Import(OtherDoc) => (last'.threw /\ StoreView' = StoreView)]_vars

C10_Witness ==
    /\ last.op = "loadProfileFile"
    /\ last.threw
    /\ Len(profiles) = 1

----------------------------------------------------------------------------
(* Claims about the filter chain *)

\* instance i has the type, frequency, gain and Q of stage i
Mirrors(instances, chain) ==
    /\ Len(instances) = Len(chain)
    /\ \A i \in 1..Len(chain) :
          /\ instances[i].type = chain[i].type
          /\ instances[i].frequency = chain[i].frequency
          /\ instances[i].gain = chain[i].gain
          /\ instances[i].Q = chain[i].q

\* C3: with the audio nodes set up, the live filter instances are 1:1 with
\* the filter chain of the active profile: same length, same order, same
\* type, frequency, gain and Q.
C3_ChainMirrorsProfile ==
    (audioReady /\ currentProfile # NULL) =>
        Mirrors(equalizerNodes, Current.equalizerNodes)

RECURSIVE Downstream(_, _)
Downstream(set, cs) ==
    LET more == set \cup {e[2] : e \in {d \in cs : d[1] \in set}}
    IN  IF more = set THEN set ELSE Downstream(more, cs)

RECURSIVE Upstream(_, _)
Upstream(set, cs) ==
    LET more == set \cup {e[1] : e \in {d \in cs : d[2] \in set}}
    IN  IF more = set THEN set ELSE Upstream(more, cs)

\* the connections that lie on a path from pre to post
SignalPath(cs) ==
    {e \in cs : e[1] \in Downstream({Pre}, cs) /\ e[2] \in Upstream({Post}, cs)}

\* pre -> instance 1 -> ... -> instance n -> post
SerialChain(n) ==
    IF n = 0 THEN {<<Pre, Post>>}
    ELSE {<<Pre, Eq(1)>>, <<Eq(n), Post>>} \cup {<<Eq(i), Eq(i + 1)>> : i \in 1..(n - 1)}

\* C4: once the audio nodes are set up, after every rebuild the connections
\* between pre and post are exactly the serial chain through the live
\* instances, and pre is connected to post directly iff the chain is empty.
C4_SerialPath ==
    audioReady =>
        /\ SignalPath(conns) = SerialChain(Len(equalizerNodes))
        /\ (<<Pre, Post>> \in conns) <=> (Len(equalizerNodes) = 0)

C4_Witness ==
    /\ audioReady
    /\ last.op = "markerDelete"
    /\ Len(equalizerNodes) = 1
    /\ <<Pre, Stale>> \in conns

\* C5: no discarded filter instance is connected: no connection leads into
\* one, and none leaves one.
C5_NoStaleConnected ==
    \A e \in conns : e[1] # Stale /\ e[2] # Stale

----------------------------------------------------------------------------
(* Claims about the mixer *)

\* the effective gain of channels[j]: 0 for a channel other than the master
\* when some channel is soloed and it is not; else 0 if muted, else its gain
Effective(channels, j) ==
    LET soloed == {k \in 1..Len(channels) : channels[k].solo}
    IN  IF channels[j].id # MasterId /\ soloed # {} /\ j \notin soloed
        THEN 0
        ELSE IF channels[j].muted THEN 0 ELSE channels[j].gain

\* the handlers that end with updateMixerNodes
UpdateOps == {"soloClick", "muteClick", "setupNodes", "loadProfilesFromStorage"}

Pushed == last.op \in UpdateOps /\ ~last.threw /\ channelGains # <<>> /\ currentProfile # NULL

\* C6: when updateMixerNodes has run, the gain node of every channel other
\* than the master holds the effective gain of that channel, for every
\* combination of solo flags.
C6_EffectiveGain ==
    Pushed =>
        \A j \in 1..Len(Current.mixerChannels) :
            Current.mixerChannels[j].id # MasterId =>
                channelGains[Current.mixerChannels[j].id + 1] =
                    Effective(Current.mixerChannels, j)

\* C7: after a gain change, a mute toggle or a solo toggle every gain node
\* holds the effective gain resolved from the channels of the active profile.
C7_NodesFollowChannels ==
    (last.op \in {"setChannelGain", "soloClick", "muteClick"} /\ ~last.threw) =>
        \A j \in 1..Len(Current.mixerChannels) :
            channelGains[Current.mixerChannels[j].id + 1] =
                Effective(Current.mixerChannels, j)

\* the regular channels (from 0) of a profile that are soloed
Soloed(p) ==
    {k \in 0..(NumRegular - 1) :
        k + 1 <= Len(p.mixerChannels) /\ p.mixerChannels[k + 1].solo}

\* C8: a click on the solo button of a regular channel that enables solo
\* leaves that channel the only soloed regular channel, and a click made with
\* at most one regular channel soloed leaves at most one soloed.
C8_SoloExclusive ==
    [][(last'.op = "soloClick" /\ ~last'.threw) =>
          LET before == Soloed(heap[mixerBound])
              after == Soloed(heap'[mixerBound'])
          IN  /\ (after \ before # {}) => Cardinality(after) = 1
              /\ Cardinality(before) <= 1 => Cardinality(after) <= 1]_vars

C8_Witness ==
    /\ last.op = "soloClick"
    /\ ~last.threw
    /\ mixerBound # NULL
    /\ mixerBound = currentProfile
    /\ Soloed(heap[mixerBound]) = {0}
    /\ heap[mixerBound].mixerChannels[2].gain > One
    /\ channelGains[2] = 0

\* C9: when updateMixerNodes has run, the gain node of the master channel is
\* 0 if the master is muted and the master's gain otherwise, whatever the
\* solo flags of the other channels.
C9_MasterIgnoresSolo ==
    Pushed =>
        \A j \in 1..Len(Current.mixerChannels) :
            Current.mixerChannels[j].id = MasterId =>
                channelGains[MasterId + 1] =
                    IF Current.mixerChannels[j].muted THEN 0
                    ELSE Current.mixerChannels[j].gain

C9_Witness ==
    /\ Pushed
    /\ last.op = "soloClick"
    /\ Len(Current.mixerChannels) = NumChannels
    /\ \E j \in 1..NumRegular : Current.mixerChannels[j].solo
    /\ ~Current.mixerChannels[MasterId + 1].muted
    /\ Current.mixerChannels[MasterId + 1].gain > One
    /\ channelGains[MasterId + 1] = Current.mixerChannels[MasterId + 1].gain

----------------------------------------------------------------------------
(* Claims about profile ids and activation *)

\* the ids of the stored profiles
StoreIds == {heap[profiles[i]].id : i \in 1..Len(profiles)}

\* C11: no two profiles of the store share an id, after every step of the
\* profile manager, and every profile appended by an import has an id that no
\* profile of the store had before the import.
C11_UniqueIds ==
    [][/\ \A i, j \in 1..Len(profiles') :
              heap'[profiles'[i]].id = heap'[profiles'[j]].id => i = j
       /\ (last'.op = "loadProfileFile" /\ ~last'.threw) =>
              /\ Len(profiles') > Len(profiles)
              /\ \A i \in (Len(profiles) + 1)..Len(profiles') :
                     heap'[profiles'[i]].id \notin StoreIds]_vars

C11_Witness ==
    /\ last.op = "loadProfileFile"
    /\ ~last.threw
    /\ Len(profiles) = 2
    /\ heap[profiles[1]].id = 2
    /\ heap[profiles[2]].id = 1

\* the handlers that make a profile the active one
ActivationOps == {"loadProfilesFromStorage", "loadClick"}

\* C12: when a profile has become the active profile, by the load from
\* storage or by Load Profile, its channel sequence has exactly 7 entries.
C12_SevenChannels ==
    (last.op \in ActivationOps /\ ~last.threw /\ currentProfile # NULL) =>
        Len(Current.mixerChannels) = NumChannels

\* C13: after Load Profile has switched the active profile, the gain nodes
\* hold the effective gains of the new active profile's channels, and the
\* profile whose channels the mixer controls modify is the new active one.
C13_MixerFollowsActivation ==
    (last.op = "loadClick" /\ ~last.threw /\ channelGains # <<>>
        /\ currentProfile # NULL) =>
        /\ mixerBound = currentProfile
        /\ \A j \in 1..Len(Current.mixerChannels) :
               channelGains[Current.mixerChannels[j].id + 1] =
                   Effective(Current.mixerChannels, j)

----------------------------------------------------------------------------
(* Claims about the level meters *)

\* a frame has drawn the meters of the channels of the active profile
MetersDrawn(l) ==
    l.op = "renderMixerMeters" /\ ~l.threw /\ l.note \in {"drawn", "reset"}

\* the strips of the channels of the active profile
Strips(p, m) ==
    {p.mixerChannels[j].id + 1 : j \in 1..Len(p.mixerChannels)} \cap (1..Len(m))

\* C14: on a meter tick, a strip with no stored peak (none yet, or 0) or with
\* a current height above the stored peak gets the current height as its peak
\* and now as the peak time; with a current height of at most a non-zero
\* stored peak the update leaves both (the decay that follows may reset them).
C14_PeakLatch ==
    [][MetersDrawn(last') =>
          \A k \in Strips(heap'[currentProfile'], meters') :
              LET h == meters'[k].bars
              IN  IF meters[k].peak \in {NoPeak, 0} \/ h > meters[k].peak
                  THEN /\ meters'[k].peak = h
                       /\ meters'[k].peakTime = now'
                  ELSE \/ /\ meters'[k].peak = meters[k].peak
                          /\ meters'[k].peakTime = meters[k].peakTime
                       \/ /\ now' - meters[k].peakTime >= PeakHold
                          /\ meters'[k].peak = 0
                          /\ meters'[k].peakTime = now']_vars

C14_Witness ==
    /\ MetersDrawn(last)
    /\ meters[1].peak = 10
    /\ meters[1].bars = 3
    /\ meters[1].peakTime < now

\* C15: after every meter tick the stored peak is 0 or younger than 1000 ms,
\* and a tick that finds a peak of 1000 ms or more, not replaced by a higher
\* level, resets it to 0 with now as the peak time.
C15_PeakDecay ==
    [][MetersDrawn(last') =>
          \A k \in Strips(heap'[currentProfile'], meters') :
              /\ meters'[k].peak = 0 \/ now' - meters'[k].peakTime < PeakHold
              /\ (/\ meters[k].peak >= 1
                  /\ meters'[k].bars <= meters[k].peak
                  /\ now' - meters[k].peakTime >= PeakHold) =>
                     /\ meters'[k].peak = 0
                     /\ meters'[k].peakTime = now']_vars

C15_Witness ==
    /\ MetersDrawn(last)
    /\ last.note = "reset"
    /\ now = 1100
    /\ meters[1].peak = 0
    /\ meters[1].peakTime = 1100

\* C16: when the peak line is drawn (peak of at least 1, younger than 1000
\* ms) its opacity, in units of 1/350, is 350 before 650 ms and
\* 350 - (dt - 650) from then on; it lies in 1..350 and does not grow while
\* the same peak is held.
C16_PeakOpacity ==
    [][MetersDrawn(last') =>
          \A k \in Strips(heap'[currentProfile'], meters') :
              LET dt == now' - meters'[k].peakTime
              IN  (dt < PeakHold /\ meters'[k].peak >= 1) =>
                     /\ meters'[k].alpha =
                            IF dt < PeakFull THEN PeakFade
                            ELSE PeakFade - (dt - PeakFull)
                     /\ meters'[k].alpha \in 1..PeakFade
                     /\ (meters[k].peakTime = meters'[k].peakTime
                            /\ meters[k].peak = meters'[k].peak) =>
                            meters'[k].alpha <= meters[k].alpha]_vars

C16_Witness ==
    /\ MetersDrawn(last)
    /\ meters[1].peak = 10
    /\ now - meters[1].peakTime = 700
    /\ meters[1].alpha = 300

----------------------------------------------------------------------------
(* Claims about persistence *)

\* C17: at most one write is pending at any time, and it is the one of the
\* latest request; a request leaves a write pending; a write happens only
\* 500 ms or more after the latest request and leaves no write pending, so
\* that requests less than 500 ms apart are followed by one write.
C17_Debounce ==
    [][/\ Cardinality(timers') <= 1
       /\ \A tm \in timers' :
              tm.id = saveTimeout' /\ tm.due = lastSave' + SaveDelay
       /\ lastSave' = now' => timers' # {}
       /\ last'.op = "saveTimeout" =>
              /\ lastSave >= 0
              /\ now' >= lastSave + SaveDelay
              /\ timers' = {}]_vars

C17_Witness ==
    /\ last.op = "saveTimeout"
    /\ lastSave = 400
    /\ now = 900
    /\ Len(storage.audioProfiles) = 2

----------------------------------------------------------------------------
(* Claims about the numeric mappings *)

Tolerance == 20

\* a level was mapped to a position and the position back to a level
WentRound ==
    calc.fn = "mixerPositionRatioToDB" /\ calc.prev # <<>>

\* C18 as stated: for every level from -50 dB to 10 dB, the level its
\* position maps back to is the level, within the tolerance.
C18_RoundTripClosed ==
    (WentRound /\ calc.prev[1] >= MinDB /\ calc.prev[1] <= MaxDB) =>
        Abs(calc.val - calc.prev[1]) <= Tolerance

\* C18, amended: for every level above -50 dB and up to 10 dB, the level its
\* position maps back to is the level, within the tolerance.
C18_RoundTrip ==
    (WentRound /\ calc.prev[1] > MinDB /\ calc.prev[1] <= MaxDB) =>
        Abs(calc.val - calc.prev[1]) <= Tolerance

C18_Witness ==
    /\ WentRound
    /\ calc.prev[1] = -49500
    /\ calc.prev[2] \in 1..(One - 1)
    /\ Abs(calc.val - calc.prev[1]) <= Tolerance

\* C19: a position of 1 or more maps to -Infinity and any other position to a
\* level from -50 dB to 10 dB; a level of -50 dB or less, -Infinity included,
\* maps to the position 1 and any other level to a position from 0 to 1.
C19_Boundaries ==
    /\ calc.fn = "mixerPositionRatioToDB" =>
          IF calc.arg >= One THEN calc.val = NegInfinity
          ELSE calc.val >= MinDB /\ calc.val <= MaxDB
    /\ calc.fn = "mixerDBToPositionRatio" =>
          IF calc.arg <= MinDB THEN calc.val = One
          ELSE calc.val >= 0 /\ calc.val <= One

C19_Witness ==
    /\ calc.fn = "mixerPositionRatioToDB"
    /\ calc.arg < 0
    /\ calc.val = MaxDB

\* C20: ratioToFrequency(0) is 20 and ratioToFrequency(1) is half the sample
\* rate; for every ratio from 0 to 1 the value lies between the two, and a
\* greater ratio does not give a smaller value.
C20_FrequencyAxis ==
    calc.fn = "ratioToFrequency" =>
        /\ calc.arg = 0 => calc.val = MinFreq
        /\ calc.arg = 100 => calc.val = SampleRate \div 2
        /\ calc.val >= MinFreq /\ calc.val <= SampleRate \div 2
        /\ (calc.prev # <<>> /\ calc.prev[1] <= calc.arg) =>
               calc.prev[2] <= calc.val

C20_Witness ==
    /\ calc.fn = "ratioToFrequency"
    /\ calc.arg = 75
    /\ calc.prev # <<>>
    /\ calc.prev[1] = 25
    /\ calc.prev[2] < calc.val
    /\ calc.val < SampleRate \div 2

\* the share of every live instance at frequency f, added up by position
Shares(f) ==
    LET add[n \in 0..Len(equalizerNodes)] ==
            IF n = 0 THEN 0 ELSE add[n - 1] + MagnitudeDB(equalizerNodes[n], f)
    IN  add[Len(equalizerNodes)]

C22_TickSeesBuiltChain ==
    (last.op = "renderLoop" /\ currentProfile # NULL) =>
        /\ Len(equalizerNodes) = Len(Current.equalizerNodes)
        /\ SignalPath(conns) = SerialChain(Len(equalizerNodes))

\* C23: a rebuild that fails leaves the graph usable: once the audio nodes
\* are set up there is a path from pre to post, and every live instance is on
\* it.
C23_RebuildAllOrNothing ==
    audioReady =>
        /\ Post \in Downstream({Pre}, conns)
        /\ \A i \in 1..Len(equalizerNodes) :
              /\ Eq(i) \in Downstream({Pre}, conns)
              /\ Eq(i) \in Upstream({Post}, conns)

\* C24: a mousemove of a drag whose index is beyond the chain of the active
\* profile (the stage has been deleted since the mousedown) does nothing: it
\* does not throw, and the stages of the profile and the live instances stay
\* as they are.
C24_StaleIndexNoOp ==
    [][(last'.op = "markerMouseMove" /\ drag.i > Len(Current.equalizerNodes)) =>
           /\ ~last'.threw
           /\ equalizerNodes' = equalizerNodes
           /\ Current'.equalizerNodes = Current.equalizerNodes]_vars

ParameterOps == {"markerMouseMove", "markerWheel", "markerRotate"}

\* C25: a change of a parameter of a stage changes stage i of the active
\* profile and live instance i alike, for one index i; the connections, the
\* number and order of stages and instances and every other stage and
\* instance stay as they are.
C25_ParameterFrame ==
    [][(last'.op \in ParameterOps /\ ~last'.threw) =>
           /\ conns' = conns
           /\ Len(equalizerNodes') = Len(equalizerNodes)
           /\ Len(Current'.equalizerNodes) = Len(Current.equalizerNodes)
           /\ \E i \in 1..Len(equalizerNodes) :
                 /\ last'.op = "markerMouseMove" => i = drag.i
                 /\ equalizerNodes'[i] = Biquad(Current'.equalizerNodes[i])
                 /\ \A j \in 1..Len(equalizerNodes) \ {i} :
                       equalizerNodes'[j] = equalizerNodes[j]
                 /\ \A j \in 1..Len(Current.equalizerNodes) \ {i} :
                       Current'.equalizerNodes[j] = Current.equalizerNodes[j]]_vars

\* C26: every stage of every profile, the active one and the stored ones,
\* has a frequency from 0 to half the sample rate.
C26_FrequencyInRange ==
    \A r \in DOMAIN heap :
        \A i \in 1..Len(heap[r].equalizerNodes) :
            /\ heap[r].equalizerNodes[i].frequency >= 0
            /\ heap[r].equalizerNodes[i].frequency <= SampleRate \div 2

\* C27: the gain stored for a channel, in the active profile and in every
\* stored one, is greater than 0.
C27_GainPositive ==
    \A r \in DOMAIN heap :
        \A j \in 1..Len(heap[r].mixerChannels) : heap[r].mixerChannels[j].gain > 0

\* C28: Save Profile with a stored profile selected puts in its place a new
\* object with the stages and channels of the active profile and with the id
\* and label of the profile it replaces; the store keeps its length and its
\* other profiles; a stage added to the active profile next leaves the store
\* as it is.
C28_SaveReplacesSelected ==
    [][/\ (last'.op = "saveCurrentProfile" /\ last'.note # "alert") =>
              LET i == FindById(St, dropdownVal)
              IN  /\ i # 0
                  /\ Len(profiles') = Len(profiles)
                  /\ \A j \in 1..Len(profiles) \ {i} :
                        heap'[profiles'[j]] = heap[profiles[j]]
                  /\ heap'[profiles'[i]].id = heap[profiles[i]].id
                  /\ heap'[profiles'[i]].label = heap[profiles[i]].label
                  /\ heap'[profiles'[i]].equalizerNodes = Current.equalizerNodes
                  /\ heap'[profiles'[i]].mixerChannels = Current.mixerChannels
                  /\ profiles'[i] # currentProfile'
                  /\ Current' = Current
       /\ (last.op = "saveCurrentProfile" /\ last'.op = "addEQNode") =>
              StoreView' = StoreView]_vars

C28_Witness ==
    /\ last.op = "saveCurrentProfile"
    /\ last.note # "alert"
    /\ Len(profiles) = 2
    /\ \E i \in 1..Len(profiles) :
          /\ heap[profiles[i]].id # Current.id
          /\ heap[profiles[i]].label # Current.label
          /\ Len(heap[profiles[i]].equalizerNodes) = 1
          /\ heap[profiles[i]].equalizerNodes = Current.equalizerNodes

\* C29: a loadProfileFile that throws leaves the stored profiles as they
\* were and sets no timer for a write.
C29_ImportAllOrNothing ==
    [][(last'.op = "loadProfileFile" /\ last'.threw) =>
           /\ StoreView' = StoreView
           /\ timers' = timers
           /\ lastSave' = lastSave]_vars

\* the list in the storage is the list of the profiles in memory
Persisted ==
    storage.audioProfiles = [i \in 1..Len(profiles) |-> ProfileToObj(StoreView[i])]

\* C30: after a request to save, the storage comes to hold the profiles as
\* they are in memory, with no timer left; and a write stores them as they
\* are at the moment it happens.
C30_EventuallyStored ==
    /\ (lastSave >= 0) ~> (timers = {} /\ Persisted)
    /\ [][last'.op = "saveTimeout" => Persisted']_vars

C30_Witness ==
    /\ last.op = "saveTimeout"
    /\ timers = {}
    /\ Len(profiles) = 2
    /\ Persisted
    /\ lastSave > 0

\* a frame of the render loop has run and has requested the next one
Ticked == last.op = "renderLoop" /\ renderLoopRunning /\ frames > 0

\* C31: when the panel ends up open (the last of the calls that start and
\* stop the loop is a start), frames of the render loop keep being run,
\* whatever calls and frames came before.
C31_LoopKeepsRunning == <>[]displayed => []<>Ticked

\* C32: at most one callback of the render loop is pending, and when the
\* panel ends up closed (the last call is a stop) the loop ends: renderLoopRunning
\* is false and no callback is pending.
C32_OneLoop ==
    /\ [](frames <= 1)
    /\ <>[]~displayed => <>[](~renderLoopRunning /\ frames = 0)

C32_Witness ==
    /\ last.op = "renderLoop"
    /\ ~displayed
    /\ ~shouldRunRenderLoop
    /\ ~renderLoopRunning
    /\ frames = 0
    /\ audioReady

\* the two steps of the startup
StartupOps == {"loadProfilesFromStorage", "setupNodes"}

\* C33: neither the callback of the storage load nor setupNodes throws,
\* whichever comes first; when both have run the live chain mirrors the
\* stages of the active profile and the mixer has 7 strips bound to the
\* 7 channels of the active profile.
C33_StartupAnyOrder ==
    last.op \in StartupOps =>
        /\ ~last.threw
        /\ (loaded /\ audioReady) =>
              /\ currentProfile # NULL
              /\ Mirrors(equalizerNodes, Current.equalizerNodes)
              /\ mixerBound = currentProfile
              /\ Len(Current.mixerChannels) = NumChannels
              /\ Len(meters) = NumChannels

\* C34: a write to the storage stores as currentAudioProfile the id of one
\* of the profiles in the list it stores.
C34_StoredCurrentInList ==
    last.op = "saveTimeout" =>
        \E i \in 1..Len(storage.audioProfiles) :
            storage.audioProfiles[i].id = storage.currentAudioProfile

\* C35: enable() of a bypassed module with its nodes set up leaves it not
\* bypassed, the direct connection replaced by the route through splitter,
\* merger and panner; disable() of a module that is not bypassed leaves it
\* bypassed, the direct connection back and the three nodes null; and with
\* the nodes set up the module is bypassed exactly when the direct connection
\* is in place.
C35_EnableDisable ==
    /\ [][/\ (last'.op = "enable" /\ upscaler.bypassed /\ upscaler.audioContext) =>
                 /\ ~upscaler'.bypassed
                 /\ Direct \notin upscaler'.links
                 /\ Route \subseteq upscaler'.links
          /\ (last'.op = "disable" /\ ~upscaler.bypassed) =>
                 /\ upscaler'.bypassed
                 /\ Direct \in upscaler'.links
                 /\ upscaler'.splitter = Null
                 /\ upscaler'.merger = Null
                 /\ upscaler'.stereoPanner = Null]_vars
    /\ [](upscaler.audioContext => (upscaler.bypassed <=> Direct \in upscaler.links))

====
